---- MODULE Spec2Model ----
(***************************************************************************)
(* A model of severance_snape's OSM-to-graph builder (osm-graph/scrape.rs,  *)
(* graph.rs, node_map.rs) and of the walking classifier                     *)
(* (backend/scrape.rs).                                                     *)
(*                                                                         *)
(* Ids are 0-based as in the code (RoadID(roads.len())); TLA+ sequences are *)
(* 1-based, so the road with id r is roads[r + 1].                          *)
(***************************************************************************)
EXTENDS Integers, Sequences, FiniteSets, TLC

VARIABLES
    pc,             \* where Graph::new / MapModel::new stands
    node_mapping,   \* HashMap<NodeID, Coord> filled by the parser callback
    highways,       \* Vec<Way> of the kept ways
    roads,          \* Vec<Road>
    intersections,  \* Vec<Intersection>
    mercator,       \* the Mercator frame of the graph, None before it is built
    map_model,      \* outcome of MapModel::new
    found,          \* the last find_edge query and its answer
    tags,           \* the tag bag handed to classify
    flag,           \* import_streets_without_sidewalk_tagging
    kind,           \* what classify returned
    node_to_id,     \* NodeMap.node_to_id
    id_to_node,     \* NodeMap.id_to_node
    calls,          \* history: the keys passed to get_or_insert, in call order
    ret             \* the last NodeMap call and its return value

vars == <<pc, node_mapping, highways, roads, intersections, mercator, map_model,
          found, tags, flag, kind, node_to_id, id_to_node, calls, ret>>

graphVars == <<pc, node_mapping, highways, roads, intersections, mercator, map_model, found>>
classifyVars == <<tags, flag, kind>>
nodeMapVars == <<node_to_id, id_to_node, calls, ret>>

(***************************************************************************)
(* Bounds of the model.                                                    *)
(***************************************************************************)
MaxWays == 2        \* kept ways in one input
MaxRefs == 5        \* node references over all kept ways of one input

Nodes == {1, 2, 3}  \* the OSM node ids an input may use

\* The coordinate the input gives node n (lon, lat).
NodeCoord(n) == <<10 + n, 50 + 2 * n>>

\* Every node sequence of at most n nodes a way of the input may have, the
\* empty one included.
WaySeqs(n) == UNION {[1..k -> Nodes] : k \in 0..n}

RECURSIVE TotalRefs(_)
TotalRefs(ways) ==
    IF ways = <<>> THEN 0 ELSE Len(Head(ways).node_ids) + TotalRefs(Tail(ways))

(***************************************************************************)
(* split_edges                                                             *)
(***************************************************************************)
RECURSIVE CountRefs(_, _)
CountRefs(ways, n) ==
    IF ways = <<>> THEN 0
    ELSE Cardinality({k \in DOMAIN Head(ways).node_ids : Head(ways).node_ids[k] = n})
         + CountRefs(Tail(ways), n)

\* node_counter: one increment per reference, over all ways.
NodeCounter(ways) ==
    [n \in UNION {{ways[w].node_ids[k] : k \in DOMAIN ways[w].node_ids} : w \in DOMAIN ways}
        |-> CountRefs(ways, n)]

\* idx is 0-based, as enumerate() gives it.
IsEndpoint(idx, num_nodes, node, node_counter) ==
    idx = 0 \/ idx = num_nodes - 1 \/ node_counter[node] > 1

\* EndpointIntersection with a fault: the road id is not pushed to an existing intersection.
EndpointIntersectionNoPush(st, n, point, road_id) ==
    IF n \in DOMAIN st.node_to_intersection
    THEN LET i == st.node_to_intersection[n]
         IN  [st EXCEPT !.i_ids = Append(@, st.intersections[i + 1].id)]
    ELSE LET i == Len(st.intersections)
         IN  [st EXCEPT !.intersections =
                            Append(@, [id |-> i, node |-> n, point |-> point,
                                       roads |-> <<road_id>>]),
                        !.node_to_intersection = (n :> i) @@ @,
                        !.i_ids = Append(@, i)]

\* One turn of the loop over the two endpoints of a road: look the node's
\* intersection up or create it, push the road id, remember the id.
EndpointIntersection(st, n, point, road_id) ==
    IF n \in DOMAIN st.node_to_intersection
    THEN LET i == st.node_to_intersection[n]
         IN  [st EXCEPT !.intersections[i + 1].roads = Append(@, road_id),
                        !.i_ids = Append(@, st.intersections[i + 1].id)]
    ELSE LET i == Len(st.intersections)
         IN  [st EXCEPT !.intersections =
                            Append(@, [id |-> i, node |-> n, point |-> point,
                                       roads |-> <<road_id>>]),
                        !.node_to_intersection = (n :> i) @@ @,
                        !.i_ids = Append(@, i)]

\* The body of `if is_endpoint && pts.len() > 1`, up to roads.push.
PushRoad(st, way, node1, node, pts) ==
    LET road_id == Len(st.roads)
        s0 == [st EXCEPT !.i_ids = <<>>]
        s1 == EndpointIntersection(s0, node1, pts[1], road_id)
        s2 == EndpointIntersection(s1, node, pts[Len(pts)], road_id)
    IN  [s2 EXCEPT !.roads =
                       Append(@, [id |-> road_id, src_i |-> s2.i_ids[1],
                                  dst_i |-> s2.i_ids[2], way |-> way.id,
                                  node1 |-> node1, node2 |-> node, linestring |-> pts])]

\* NextEdgePts with a fault: the next edge starts with no point.
NextEdgePtsEmpty(nm, node) == <<>>

\* "Start the next edge": the accumulator after a road was closed at node.
NextEdgePts(nm, node) == <<nm[node]>>

\* The loop over one way's nodes from position idx on; node1 and pts are the
\* loop's locals. Indexing node_mapping with an absent node panics.
RECURSIVE WalkWay(_, _, _, _, _, _, _)
WalkWay(st, way, idx, node1, pts, nm, node_counter) ==
    IF st.panic \/ idx >= Len(way.node_ids) THEN st
    ELSE LET node == way.node_ids[idx + 1]
         IN  IF node \notin DOMAIN nm THEN [st EXCEPT !.panic = TRUE]
             ELSE LET pts1 == Append(pts, nm[node])
                  IN  IF IsEndpoint(idx, Len(way.node_ids), node, node_counter)
                         /\ Len(pts1) > 1
                      THEN WalkWay(PushRoad(st, way, node1, node, pts1), way, idx + 1,
                                   node, NextEdgePts(nm, node), nm, node_counter)
                      ELSE WalkWay(st, way, idx + 1, node1, pts1, nm, node_counter)

\* One turn of `for way in ways`; way.node_ids[0] panics on a way without nodes.
SplitWay(st, way, nm, node_counter) ==
    IF st.panic THEN st
    ELSE IF Len(way.node_ids) = 0 THEN [st EXCEPT !.panic = TRUE]
    ELSE WalkWay(st, way, 0, way.node_ids[1], <<>>, nm, node_counter)

RECURSIVE SplitWays(_, _, _, _)
SplitWays(st, ways, nm, node_counter) ==
    IF ways = <<>> THEN st
    ELSE SplitWays(SplitWay(st, Head(ways), nm, node_counter), Tail(ways), nm, node_counter)

EmptySplit ==
    [roads |-> <<>>, intersections |-> <<>>, node_to_intersection |-> <<>>,
     i_ids |-> <<>>, panic |-> FALSE]

\* split_edges as a whole: the roads and intersections, or a panic.
SplitEdges(nm, ways) ==
    LET st == SplitWays(EmptySplit, ways, nm, NodeCounter(ways))
    IN  IF st.panic
        THEN [roads |-> <<>>, intersections |-> <<>>, panic |-> TRUE]
        ELSE [roads |-> st.roads, intersections |-> st.intersections, panic |-> FALSE]

(***************************************************************************)
(* The Mercator frame                                                      *)
(***************************************************************************)
MercatorScale == 3

Min(S) == CHOOSE x \in S : \A y \in S : x <= y
Max(S) == CHOOSE x \in S : \A y \in S : x >= y

\* All points of the geometry collection: road linestrings and intersection points.
CollectionPoints(rs, is) ==
    UNION {{rs[r].linestring[k] : k \in DOMAIN rs[r].linestring} : r \in DOMAIN rs}
    \cup {is[i].point : i \in DOMAIN is}

\* No frame: what Mercator::from answers (None) when it cannot fit one.
NoFrame == [ok |-> FALSE]

\* Mercator::from: a frame fitted to the bounds of the collection, None when empty.
MercatorFrom(points) ==
    IF points = {} THEN NoFrame
    ELSE [ok |-> TRUE, min_x |-> Min({p[1] : p \in points}),
          max_y |-> Max({p[2] : p \in points})]

\* Forward projection of one point: x grows east from the west bound, y grows
\* south from the north bound.
ToMercator(m, pt) == <<(pt[1] - m.min_x) * MercatorScale, (m.max_y - pt[2]) * MercatorScale>>

\* ReprojectRoads with a fault: the linestrings are projected a second time.
ReprojectRoadsTwice(m, rs) ==
    [r \in DOMAIN rs |->
        [rs[r] EXCEPT !.linestring =
            [k \in DOMAIN rs[r].linestring |->
                ToMercator(m, ToMercator(m, rs[r].linestring[k]))]]]

\* `for r in &mut roads { mercator.to_mercator_in_place(&mut r.linestring) }`
ReprojectRoads(m, rs) ==
    [r \in DOMAIN rs |->
        [rs[r] EXCEPT !.linestring =
            [k \in DOMAIN rs[r].linestring |-> ToMercator(m, rs[r].linestring[k])]]]

\* `for i in &mut intersections { mercator.to_mercator_in_place(&mut i.point) }`
ReprojectIntersections(m, is) ==
    [i \in DOMAIN is |-> [is[i] EXCEPT !.point = ToMercator(m, is[i].point)]]

(***************************************************************************)
(* Graph::find_edge                                                        *)
(***************************************************************************)
RECURSIVE FirstMatch(_, _, _)
FirstMatch(rs, ids, i2) ==
    IF ids = <<>> THEN <<>>
    ELSE LET road == rs[Head(ids) + 1]
         IN  IF road.src_i = i2 \/ road.dst_i = i2 THEN <<road.id>>
             ELSE FirstMatch(rs, Tail(ids), i2)

\* What find_edge returns: <<id>> for Some(road), <<>> for None.
find_edge(rs, is, i1, i2) == FirstMatch(rs, is[i1 + 1].roads, i2)

(***************************************************************************)
(* Graph::new and MapModel::new as a state machine                         *)
(***************************************************************************)
NoQuery == [asked |-> FALSE]

NoCall == [op |-> "none"]

InitGraph ==
    /\ pc = "parse"
    /\ node_mapping = <<>>
    /\ highways = <<>>
    /\ roads = <<>>
    /\ intersections = <<>>
    /\ mercator = NoFrame
    /\ map_model = "none"
    /\ found = NoQuery

\* The parser delivers Element::Node. Inputs list their nodes in id order
\* before their ways.
ParseNode(n) ==
    /\ pc = "parse"
    /\ highways = <<>>
    /\ n = Cardinality(DOMAIN node_mapping) + 1
    /\ node_mapping' = (n :> NodeCoord(n)) @@ node_mapping
    /\ UNCHANGED <<pc, highways, roads, intersections, mercator, map_model, found>>
    /\ UNCHANGED <<classifyVars, nodeMapVars>>

\* The parser delivers Element::Way; keep is what keep_road(&tags) answers.
\* Inputs leave at most the last node out of the node table.
ParseWay(node_ids, keep) ==
    /\ pc = "parse"
    /\ Cardinality(DOMAIN node_mapping) >= Cardinality(Nodes) - 1
    /\ Len(highways) < MaxWays
    /\ node_ids \in WaySeqs(MaxRefs - TotalRefs(highways))
    /\ highways' = IF keep
                   THEN Append(highways, [id |-> Len(highways) + 1, node_ids |-> node_ids])
                   ELSE highways
    /\ UNCHANGED <<pc, node_mapping, roads, intersections, mercator, map_model, found>>
    /\ UNCHANGED <<classifyVars, nodeMapVars>>

\* osm_reader::parse fails and `?` returns the error.
ParseError ==
    /\ pc = "parse"
    /\ pc' = "err"
    /\ node_mapping' = <<>>
    /\ highways' = <<>>
    /\ UNCHANGED <<roads, intersections, mercator, map_model, found>>
    /\ UNCHANGED <<classifyVars, nodeMapVars>>

\* The input ends and split_edges runs.
SplitEdgesStep ==
    /\ pc = "parse"
    /\ LET g == SplitEdges(node_mapping, highways)
       IN  /\ pc' = IF g.panic THEN "panic_split" ELSE "split"
           /\ roads' = g.roads
           /\ intersections' = g.intersections
    /\ UNCHANGED <<node_mapping, highways, mercator, map_model, found>>
    /\ UNCHANGED <<classifyVars, nodeMapVars>>

\* Mercator::from(collection).unwrap() and the reprojection in place; Graph::new
\* returns Ok.
Reproject ==
    /\ pc = "split"
    /\ LET m == MercatorFrom(CollectionPoints(roads, intersections))
       IN  IF ~m.ok
           THEN /\ pc' = "panic_mercator"
                /\ UNCHANGED <<roads, intersections, mercator>>
           ELSE /\ pc' = "done"
                /\ mercator' = m
                /\ roads' = ReprojectRoads(m, roads)
                /\ intersections' = ReprojectIntersections(m, intersections)
    /\ UNCHANGED <<node_mapping, highways, map_model, found>>
    /\ UNCHANGED <<classifyVars, nodeMapVars>>

\* MapModel::new after Graph::new returned: Ok builds the router and the
\* instance, Err is mapped by err_to_js and returned.
MapModelNew ==
    /\ map_model = "none"
    /\ pc \in {"done", "err"}
    /\ map_model' = IF pc = "done" THEN "created" ELSE "error"
    /\ UNCHANGED <<pc, node_mapping, highways, roads, intersections, mercator, found>>
    /\ UNCHANGED <<classifyVars, nodeMapVars>>

\* A find_edge call on the built graph.
FindEdge(i1, i2) ==
    /\ pc = "done"
    /\ i1 \in 0..(Len(intersections) - 1)
    /\ i2 \in 0..(Len(intersections) - 1)
    /\ found' = [asked |-> TRUE, i1 |-> i1, i2 |-> i2, road |-> find_edge(roads, intersections, i1, i2)]
    /\ UNCHANGED <<pc, node_mapping, highways, roads, intersections, mercator, map_model>>
    /\ UNCHANGED <<classifyVars, nodeMapVars>>

(***************************************************************************)
(* Tags and classify                                                       *)
(***************************************************************************)
None == "None"

\* A tag bag is a function from the keys present to their values.
has(t, k) == k \in DOMAIN t
is(t, k, v) == k \in DOMAIN t /\ t[k] = v
is_any(t, k, vs) == \E v \in vs : is(t, k, v)
has_any(t, ks) == \E k \in ks : has(t, k)

\* classify with a fault: the sidewalk=separate exclusion is tried before the big roads.
classifySeparateFirst(t, import_streets_without_sidewalk_tagging) ==
    IF ~has(t, "highway") \/ is(t, "highway", "proposed") \/ is(t, "area", "yes")
    THEN None
    ELSE IF is_any(t, "highway", {"footway", "steps", "path", "track", "corridor"})
    THEN IF has(t, "indoor") \/ is(t, "highway", "corridor") THEN "Indoors"
         ELSE IF has_any(t, {"layer", "bridge", "tunnel"}) THEN "BridgeOrTunnel"
         ELSE IF is(t, "footway", "crossing") THEN "Crossing"
         ELSE "Footway"
    ELSE IF is(t, "highway", "crossing") \/ has(t, "crossing") THEN "Crossing"
    ELSE IF is(t, "sidewalk", "separate") \/ is(t, "sidewalk:left", "separate")
            \/ is(t, "sidewalk:right", "separate") \/ is(t, "sidewalk:both", "separate")
    THEN None
    ELSE IF is_any(t, "highway", {"motorway", "motorway_link", "trunk", "trunk_link",
                                  "primary", "primary_link"})
    THEN "Severance"
    ELSE IF is(t, "highway", "pedestrian")
            \/ is_any(t, "sidewalk", {"both", "right", "left"})
    THEN "WithTraffic"
    ELSE IF is_any(t, "highway", {"secondary", "secondary_link", "tertiary",
                                  "tertiary_link", "residential", "unclassified",
                                  "service", "living_street", "cycleway"})
            /\ ~is(t, "foot", "no")
    THEN IF import_streets_without_sidewalk_tagging THEN "WithTraffic" ELSE None
    ELSE "Severance"

\* classify with a fault: the guess for untagged streets does not look at foot=no.
classifyIgnoresFoot(t, import_streets_without_sidewalk_tagging) ==
    IF ~has(t, "highway") \/ is(t, "highway", "proposed") \/ is(t, "area", "yes")
    THEN None
    ELSE IF is_any(t, "highway", {"footway", "steps", "path", "track", "corridor"})
    THEN IF has(t, "indoor") \/ is(t, "highway", "corridor") THEN "Indoors"
         ELSE IF has_any(t, {"layer", "bridge", "tunnel"}) THEN "BridgeOrTunnel"
         ELSE IF is(t, "footway", "crossing") THEN "Crossing"
         ELSE "Footway"
    ELSE IF is(t, "highway", "crossing") \/ has(t, "crossing") THEN "Crossing"
    ELSE IF is_any(t, "highway", {"motorway", "motorway_link", "trunk", "trunk_link",
                                  "primary", "primary_link"})
    THEN "Severance"
    ELSE IF is(t, "sidewalk", "separate") \/ is(t, "sidewalk:left", "separate")
            \/ is(t, "sidewalk:right", "separate") \/ is(t, "sidewalk:both", "separate")
    THEN None
    ELSE IF is(t, "highway", "pedestrian")
            \/ is_any(t, "sidewalk", {"both", "right", "left"})
    THEN "WithTraffic"
    ELSE IF is_any(t, "highway", {"secondary", "secondary_link", "tertiary",
                                  "tertiary_link", "residential", "unclassified",
                                  "service", "living_street", "cycleway"})
            /\ TRUE
    THEN IF import_streets_without_sidewalk_tagging THEN "WithTraffic" ELSE None
    ELSE "Severance"

\* classify: None or the RoadKind, by the order of the early returns.
classify(t, import_streets_without_sidewalk_tagging) ==
    IF ~has(t, "highway") \/ is(t, "highway", "proposed") \/ is(t, "area", "yes")
    THEN None
    ELSE IF is_any(t, "highway", {"footway", "steps", "path", "track", "corridor"})
    THEN IF has(t, "indoor") \/ is(t, "highway", "corridor") THEN "Indoors"
         ELSE IF has_any(t, {"layer", "bridge", "tunnel"}) THEN "BridgeOrTunnel"
         ELSE IF is(t, "footway", "crossing") THEN "Crossing"
         ELSE "Footway"
    ELSE IF is(t, "highway", "crossing") \/ has(t, "crossing") THEN "Crossing"
    ELSE IF is_any(t, "highway", {"motorway", "motorway_link", "trunk", "trunk_link",
                                  "primary", "primary_link"})
    THEN "Severance"
    ELSE IF is(t, "sidewalk", "separate") \/ is(t, "sidewalk:left", "separate")
            \/ is(t, "sidewalk:right", "separate") \/ is(t, "sidewalk:both", "separate")
    THEN None
    ELSE IF is(t, "highway", "pedestrian")
            \/ is_any(t, "sidewalk", {"both", "right", "left"})
    THEN "WithTraffic"
    ELSE IF is_any(t, "highway", {"secondary", "secondary_link", "tertiary",
                                  "tertiary_link", "residential", "unclassified",
                                  "service", "living_street", "cycleway"})
            /\ ~is(t, "foot", "no")
    THEN IF import_streets_without_sidewalk_tagging THEN "WithTraffic" ELSE None
    ELSE "Severance"

MaxTags == 3        \* tags on one way

\* The values an input may give each key: every value the classifier names and
\* some it does not.
TagValues ==
    [highway |-> {"proposed", "footway", "steps", "path", "track", "corridor",
                  "crossing", "motorway", "motorway_link", "trunk", "trunk_link",
                  "primary", "primary_link", "pedestrian", "secondary",
                  "secondary_link", "tertiary", "tertiary_link", "residential",
                  "unclassified", "service", "living_street", "cycleway",
                  "construction", "busway"},
     area |-> {"yes", "no"},
     indoor |-> {"yes"},
     layer |-> {"1"},
     bridge |-> {"yes"},
     tunnel |-> {"yes"},
     footway |-> {"crossing", "sidewalk"},
     crossing |-> {"zebra"},
     sidewalk |-> {"separate", "both", "right", "left", "no"},
     foot |-> {"no", "yes"}]
    @@ ("sidewalk:left" :> {"separate", "yes"})
    @@ ("sidewalk:right" :> {"separate", "yes"})
    @@ ("sidewalk:both" :> {"separate", "yes"})

TagKeys == DOMAIN TagValues

InitClassify ==
    /\ tags = <<>>
    /\ flag \in BOOLEAN
    /\ kind = "unset"

\* The parser's tags are gathered into the bag, one key at a time.
InsertTag(k, v) ==
    /\ kind = "unset"
    /\ k \notin DOMAIN tags
    /\ Cardinality(DOMAIN tags) < MaxTags
    /\ tags' = (k :> v) @@ tags
    /\ UNCHANGED <<flag, kind>>
    /\ UNCHANGED <<graphVars, nodeMapVars>>

\* scrape::classify(tags, import_streets_without_sidewalk_tagging)
Classify ==
    /\ kind = "unset"
    /\ kind' = classify(tags, flag)
    /\ UNCHANGED <<tags, flag>>
    /\ UNCHANGED <<graphVars, nodeMapVars>>

(***************************************************************************)
(* NodeMap                                                                 *)
(***************************************************************************)
MaxCalls == 4       \* get_or_insert calls on one map

Keys == {0, 1, 2}   \* the IntersectionIDs used as keys

\* NodeMap::new
NodeMapNew == [node_to_id |-> <<>>, id_to_node |-> <<>>]

\* get_or_insert with a fault: the lookup of an existing id is missing.
get_or_insert_no_lookup(m, node) ==
    LET id == Len(m.id_to_node)
    IN  [map |-> [node_to_id |-> (node :> id) @@ m.node_to_id,
                  id_to_node |-> Append(m.id_to_node, node)],
         id |-> id]

\* get_or_insert: the map afterwards and the id returned.
get_or_insert(m, node) ==
    IF node \in DOMAIN m.node_to_id
    THEN [map |-> m, id |-> m.node_to_id[node]]
    ELSE LET id == Len(m.id_to_node)
         IN  [map |-> [node_to_id |-> (node :> id) @@ m.node_to_id,
                       id_to_node |-> Append(m.id_to_node, node)],
              id |-> id]

\* get: <<id>> for Some(id), <<>> for None.
get(m, node) == IF node \in DOMAIN m.node_to_id THEN <<m.node_to_id[node]>> ELSE <<>>

\* translate_id; id_to_node[id] panics out of range, so callers stay in range.
translate_id(m, id) == m.id_to_node[id + 1]

TheNodeMap == [node_to_id |-> node_to_id, id_to_node |-> id_to_node]

InitNodeMap ==
    /\ node_to_id = NodeMapNew.node_to_id
    /\ id_to_node = NodeMapNew.id_to_node
    /\ calls = <<>>
    /\ ret = NoCall

GetOrInsert(x) ==
    /\ Len(calls) < MaxCalls
    /\ LET r == get_or_insert(TheNodeMap, x)
       IN  /\ node_to_id' = r.map.node_to_id
           /\ id_to_node' = r.map.id_to_node
           /\ ret' = [op |-> "get_or_insert", arg |-> x, val |-> <<r.id>>]
    /\ calls' = Append(calls, x)
    /\ UNCHANGED <<graphVars, classifyVars>>

Get(x) ==
    /\ ret' = [op |-> "get", arg |-> x, val |-> get(TheNodeMap, x)]
    /\ UNCHANGED <<node_to_id, id_to_node, calls>>
    /\ UNCHANGED <<graphVars, classifyVars>>

TranslateId(id) ==
    /\ id < Len(id_to_node)
    /\ ret' = [op |-> "translate_id", arg |-> id, val |-> <<translate_id(TheNodeMap, id)>>]
    /\ UNCHANGED <<node_to_id, id_to_node, calls>>
    /\ UNCHANGED <<graphVars, classifyVars>>

(***************************************************************************)
(* Properties                                                              *)
(***************************************************************************)
Range(s) == {s[k] : k \in DOMAIN s}

\* The kept ways split_edges turns into roads: those with at least 2 nodes.
LongWays == {w \in DOMAIN highways : Len(highways[w].node_ids) >= 2}

\* The roads of one way, in RoadID order.
RoadsOfWay(id) ==
    LET OfWay(r) == r.way = id
    IN  SelectSeq(roads, OfWay)

\* The linestrings of a run of roads joined, each junction point taken once.
RECURSIVE JoinLinestrings(_)
JoinLinestrings(rs) ==
    IF rs = <<>> THEN <<>>
    ELSE IF Len(rs) = 1 THEN rs[1].linestring
    ELSE rs[1].linestring \o Tail(JoinLinestrings(Tail(rs)))

\* Where the input's point of node n lies in the stored geometry: WGS84 until
\* the reprojection, the Mercator frame after it.
StoredPoint(n) ==
    IF pc = "done" THEN ToMercator(mercator, node_mapping[n]) ELSE node_mapping[n]

\* C1: in every graph split_edges builds and Graph::new returns, road and
\* intersection ids are the indices of their vectors, and a road id is listed
\* at an intersection if and only if that intersection is the road's src_i or
\* dst_i.
C1_DenseIdsAndAdjacency ==
    pc \in {"split", "done"} =>
        /\ \A k \in DOMAIN roads : roads[k].id = k - 1
        /\ \A k \in DOMAIN intersections : intersections[k].id = k - 1
        /\ \A r \in DOMAIN roads :
              /\ roads[r].src_i \in 0..(Len(intersections) - 1)
              /\ roads[r].dst_i \in 0..(Len(intersections) - 1)
        /\ \A i \in DOMAIN intersections :
              Range(intersections[i].roads) \subseteq 0..(Len(roads) - 1)
        /\ \A r \in DOMAIN roads, i \in DOMAIN intersections :
              (r - 1) \in Range(intersections[i].roads)
                  <=> (roads[r].src_i = i - 1 \/ roads[r].dst_i = i - 1)

\* C1 witness: a returned graph of two ways of at least 2 nodes that share a
\* node, with a self-loop road and an intersection listing three road ends.
C1_Witness ==
    /\ pc = "done"
    /\ Cardinality(LongWays) = 2
    /\ \E r \in DOMAIN roads : roads[r].src_i = roads[r].dst_i
    /\ \E r \in DOMAIN roads : roads[r].src_i # roads[r].dst_i
    /\ \E i \in DOMAIN intersections : Len(intersections[i].roads) >= 3

\* C2: a node of a kept way (of at least 2 nodes) has an intersection, i.e. an
\* edge is closed at it, if and only if it is the first or last node of a kept
\* way or at least 2 distinct kept ways reference it.
C2_EndpointIffSharedOrEnd ==
    pc = "split" =>
        \A w \in LongWays : \A n \in Range(highways[w].node_ids) :
            (\E i \in DOMAIN intersections : intersections[i].node = n)
                <=> \/ \E v \in DOMAIN highways :
                          /\ highways[v].node_ids # <<>>
                          /\ \/ highways[v].node_ids[1] = n
                             \/ highways[v].node_ids[Len(highways[v].node_ids)] = n
                    \/ Cardinality({v \in DOMAIN highways :
                                       n \in Range(highways[v].node_ids)}) >= 2

\* C5: every road's linestring has at least 2 points, starts exactly at the
\* stored point of its src_i and ends exactly at the stored point of its dst_i;
\* after Graph::new these are the input's points projected once into the frame
\* fitted to the input's points.
C5_LinestringEndsAtIntersections ==
    pc \in {"split", "done"} =>
        /\ \A r \in DOMAIN roads :
              LET ls == roads[r].linestring
              IN  /\ Len(ls) >= 2
                  /\ ls[1] = intersections[roads[r].src_i + 1].point
                  /\ ls[Len(ls)] = intersections[roads[r].dst_i + 1].point
                  /\ ls[1] = StoredPoint(roads[r].node1)
                  /\ ls[Len(ls)] = StoredPoint(roads[r].node2)
        /\ \A i \in DOMAIN intersections :
              intersections[i].point = StoredPoint(intersections[i].node)
        /\ pc = "done" =>
              mercator = MercatorFrom({node_mapping[n] :
                             n \in UNION {Range(highways[w].node_ids) : w \in LongWays}})

\* C5 witness: a reprojected graph with a road of more than 2 points and two
\* roads meeting at an intersection that is not at the frame's origin.
C5_Witness ==
    /\ pc = "done"
    /\ \E r \in DOMAIN roads : Len(roads[r].linestring) >= 3
    /\ \E i \in DOMAIN intersections :
          /\ Len(intersections[i].roads) >= 2
          /\ intersections[i].point[1] > 0
          /\ intersections[i].point[2] > 0

\* C6: the roads made from a kept way of at least 2 nodes have consecutive
\* RoadIDs in way order, each ends where the next begins, and their
\* linestrings joined (junction points once) are the way's node sequence
\* point for point.
C6_RoadsReassembleWay ==
    pc \in {"split", "done"} =>
        /\ \A r \in DOMAIN roads : r > 1 => roads[r - 1].way <= roads[r].way
        /\ \A w \in LongWays :
              LET rs == RoadsOfWay(highways[w].id)
                  ids == highways[w].node_ids
              IN  /\ rs # <<>>
                  /\ \A j \in 1..(Len(rs) - 1) :
                        /\ rs[j + 1].id = rs[j].id + 1
                        /\ rs[j].dst_i = rs[j + 1].src_i
                        /\ rs[j].node2 = rs[j + 1].node1
                  /\ rs[1].node1 = ids[1]
                  /\ rs[Len(rs)].node2 = ids[Len(ids)]
                  /\ JoinLinestrings(rs) = [k \in DOMAIN ids |-> StoredPoint(ids[k])]

\* C6 witness: a returned graph with a way of at least 3 nodes that repeats a
\* node id consecutively and was split into several roads.
C6_Witness ==
    /\ pc = "done"
    /\ \E w \in LongWays :
          /\ Len(highways[w].node_ids) >= 3
          /\ \E k \in 1..(Len(highways[w].node_ids) - 1) :
                highways[w].node_ids[k] = highways[w].node_ids[k + 1]
          /\ Len(RoadsOfWay(highways[w].id)) >= 2

\* A kept way references a node that the node table lacks.
MissingNodeReferenced ==
    \E w \in DOMAIN highways : \E n \in Range(highways[w].node_ids) :
        n \notin DOMAIN node_mapping

\* C7: when a kept way references a node absent from the node table,
\* construction ends with an error result that MapModel::new surfaces, and no
\* instance is created.
C7_MissingNodeIsError ==
    (pc # "parse" /\ MissingNodeReferenced) => (pc = "err" /\ map_model # "created")

\* C8: kept ways of fewer than 2 nodes are dropped silently: split_edges ends
\* as it would on the input without them, with the same roads and
\* intersections and no error of their making.
C8_ShortWaysDropped ==
    pc \in {"split", "panic_split"} =>
        LET AtLeastTwo(w) == Len(w.node_ids) >= 2
        IN  [roads |-> roads, intersections |-> intersections,
             panic |-> (pc = "panic_split")]
                = SplitEdges(node_mapping, SelectSeq(highways, AtLeastTwo))

\* The first occurrences of a call history, in order.
RECURSIVE FirstInsertions(_)
FirstInsertions(s) ==
    IF s = <<>> THEN <<>>
    ELSE LET before == FirstInsertions(SubSeq(s, 1, Len(s) - 1))
         IN  IF s[Len(s)] \in Range(before) THEN before ELSE Append(before, s[Len(s)])

\* C9: after any calls, the ids are 0..n-1 in order of first insertion, the two
\* directions of the map are inverse, get answers Some(id) for exactly the
\* inserted keys, and every call returned what the history determines (so a
\* repeated get_or_insert and a get change nothing).
C9_NodeMapBijection ==
    LET order == FirstInsertions(calls)
        m == TheNodeMap
    IN  /\ id_to_node = order
        /\ DOMAIN node_to_id = Range(calls)
        /\ \A k \in DOMAIN order : node_to_id[order[k]] = k - 1
        /\ \A x \in Range(calls) :
              /\ translate_id(m, node_to_id[x]) = x
              /\ get(m, x) = <<node_to_id[x]>>
        /\ \A y \in Keys \ Range(calls) : get(m, y) = <<>>
        /\ ret.op = "get_or_insert" =>
              /\ calls # <<>> /\ ret.arg = calls[Len(calls)]
              /\ \E k \in DOMAIN order : order[k] = ret.arg /\ ret.val = <<k - 1>>
        /\ ret.op = "get" =>
              IF ret.arg \in Range(calls)
              THEN \E k \in DOMAIN order : order[k] = ret.arg /\ ret.val = <<k - 1>>
              ELSE ret.val = <<>>
        /\ ret.op = "translate_id" => ret.val = <<order[ret.arg + 1]>>

\* C9 witness: three keys inserted, then get_or_insert of the second key again
\* returned its id 1.
C9_Witness ==
    /\ Len(id_to_node) = 3
    /\ Len(calls) = 4
    /\ calls[4] = calls[2]
    /\ ret = [op |-> "get_or_insert", arg |-> calls[2], val |-> <<1>>]

\* C10: find_edge(i1, i2) is None exactly when no road has i1 and i2 as its
\* two endpoints, else the lowest-id road that has, and find_edge(i2, i1)
\* answers the same.
C10_FindEdgeLowestBetween ==
    found.asked =>
        LET between == {r \in DOMAIN roads :
                           {roads[r].src_i, roads[r].dst_i} = {found.i1, found.i2}}
        IN  /\ found.road = IF between = {} THEN <<>> ELSE <<Min(between) - 1>>
            /\ find_edge(roads, intersections, found.i2, found.i1) = found.road

\* The spec's rules 1-8 as an ordered list of guards and results.
RuleList(t, f) ==
    LET footish == is_any(t, "highway", {"footway", "steps", "path", "track", "corridor"})
    IN  << [when |-> ~has(t, "highway") \/ is(t, "highway", "proposed")
                     \/ is(t, "area", "yes"),
            then |-> None],
           [when |-> footish /\ (has(t, "indoor") \/ is(t, "highway", "corridor")),
            then |-> "Indoors"],
           [when |-> footish /\ has_any(t, {"layer", "bridge", "tunnel"}),
            then |-> "BridgeOrTunnel"],
           [when |-> footish /\ is(t, "footway", "crossing"), then |-> "Crossing"],
           [when |-> footish, then |-> "Footway"],
           [when |-> is(t, "highway", "crossing") \/ has(t, "crossing"),
            then |-> "Crossing"],
           [when |-> is_any(t, "highway", {"motorway", "motorway_link", "trunk",
                                           "trunk_link", "primary", "primary_link"}),
            then |-> "Severance"],
           [when |-> \E k \in {"sidewalk", "sidewalk:left", "sidewalk:right",
                               "sidewalk:both"} : is(t, k, "separate"),
            then |-> None],
           [when |-> is(t, "highway", "pedestrian")
                     \/ is_any(t, "sidewalk", {"both", "right", "left"}),
            then |-> "WithTraffic"],
           [when |-> is_any(t, "highway", {"secondary", "secondary_link", "tertiary",
                                           "tertiary_link", "residential",
                                           "unclassified", "service", "living_street",
                                           "cycleway"})
                     /\ ~is(t, "foot", "no"),
            then |-> IF f THEN "WithTraffic" ELSE None],
           [when |-> TRUE, then |-> "Severance"] >>

\* The index of the first rule that matches.
FirstRule(t, f) == Min({i \in DOMAIN RuleList(t, f) : RuleList(t, f)[i].when})

\* C3: classify returns what the first matching rule of the list gives, and
\* the flag changes the result only for bags whose first match is rule 7.
C3_ClassifyIsFirstMatch ==
    kind # "unset" =>
        /\ kind = RuleList(tags, flag)[FirstRule(tags, flag)].then
        /\ classify(tags, TRUE) # classify(tags, FALSE) => FirstRule(tags, flag) = 10

\* C3 witness: footway + bridge + footway=crossing was classified BridgeOrTunnel.
C3_Witness ==
    /\ kind = "BridgeOrTunnel"
    /\ DOMAIN tags = {"highway", "bridge", "footway"}
    /\ tags["highway"] = "footway"
    /\ tags["footway"] = "crossing"

\* highway=residential with foot=no and no tag that an earlier rule looks at.
ResidentialFootNo ==
    /\ is(tags, "highway", "residential")
    /\ is(tags, "foot", "no")
    /\ ~is(tags, "area", "yes")
    /\ ~has_any(tags, {"crossing", "sidewalk", "sidewalk:left", "sidewalk:right",
                       "sidewalk:both"})

\* C4 as stated: highway=residential with foot=no is classified None.
C4_ResidentialFootNoIsNone ==
    (kind # "unset" /\ ResidentialFootNo) => kind = None

\* C4 amended: highway=residential with foot=no is classified Severance (the
\* fallback), whatever the flag.
C4_ResidentialFootNoIsSeverance ==
    (kind # "unset" /\ ResidentialFootNo) => kind = "Severance"

\* C4 witness: exactly highway=residential, foot=no with the flag set was
\* classified Severance.
C4_Witness ==
    /\ kind = "Severance"
    /\ flag
    /\ DOMAIN tags = {"highway", "foot"}
    /\ ResidentialFootNo

(***************************************************************************)
(* Specifications                                                          *)
(***************************************************************************)
InitIdleGraphVars == InitGraph

InitIdleClassify == tags = <<>> /\ flag = FALSE /\ kind = "unset"

InitIdleNodeMap == node_to_id = <<>> /\ id_to_node = <<>> /\ calls = <<>> /\ ret = NoCall

Init == InitGraph /\ InitIdleClassify /\ InitIdleNodeMap

Next ==
    \/ \E n \in Nodes : ParseNode(n)
    \/ \E node_ids \in WaySeqs(MaxRefs - TotalRefs(highways)), keep \in BOOLEAN :
          ParseWay(node_ids, keep)
    \/ ParseError
    \/ SplitEdgesStep
    \/ Reproject
    \/ MapModelNew

Spec == Init /\ [][Next]_vars

NextFind ==
    \/ Next
    \/ \E i1 \in 0..MaxRefs, i2 \in 0..MaxRefs : FindEdge(i1, i2)

SpecFind == Init /\ [][NextFind]_vars

InitC == InitIdleGraphVars /\ InitClassify /\ InitIdleNodeMap

NextClassify ==
    \/ \E k \in TagKeys : \E v \in TagValues[k] : InsertTag(k, v)
    \/ Classify

SpecClassify == InitC /\ [][NextClassify]_vars

InitN == InitIdleGraphVars /\ InitIdleClassify /\ InitNodeMap

NextNodeMap ==
    \/ \E x \in Keys : GetOrInsert(x)
    \/ \E x \in Keys : Get(x)
    \/ \E id \in 0..MaxCalls : TranslateId(id)

SpecNodeMap == InitN /\ [][NextNodeMap]_vars
====
